---------------------------- MODULE Spec2Model ----------------------------
(***************************************************************************)
(* A model of dl210th.py, the client of the Voltcraft DL-210TH logger:    *)
(* the binary record framework, the command/response framing and the      *)
(* measurement dump (read_measurements).  Byte strings are sequences of   *)
(* numbers 0..255; Python's 0-based indices are kept (see At, Slice).     *)
(***************************************************************************)
EXTENDS Integers, Sequences, FiniteSets, TLC

(***************************************************************************)
(* Byte strings.                                                           *)
(***************************************************************************)
Min(a, b) == IF a < b THEN a ELSE b
Max(a, b) == IF a > b THEN a ELSE b

\* data[i], 0-based
At(data, i) == data[i + 1]

\* data[a:b], 0-based, clamped to the length as Python's slices are
Slice(data, a, b) == SubSeq(data, a + 1, Min(b, Len(data)))

\* bytes(n): n zero bytes
Zeros(n) == [k \in 1..n |-> 0]

\* response.startswith(prefix)
StartsWith(data, prefix) ==
    /\ Len(data) >= Len(prefix)
    /\ \A k \in 1..Len(prefix) : data[k] = prefix[k]

\* bytes([...]) raises ValueError unless every element is in range(256)
IsBytes(s) == \A k \in 1..Len(s) : s[k] \in 0..255

(***************************************************************************)
(* Field descriptors and record schemas (_Field and its subclasses,       *)
(* _BinaryRecord and its subclasses).                                      *)
(***************************************************************************)
_Byte(name) == [name |-> name, kind |-> "Byte", length |-> 1, cls |-> ""]
_Word(name) == [name |-> name, kind |-> "Word", length |-> 2, cls |-> ""]
_SWord(name) == [name |-> name, kind |-> "SWord", length |-> 2, cls |-> ""]
_Long(name) == [name |-> name, kind |-> "Long", length |-> 4, cls |-> ""]
_String(name, length) ==
    [name |-> name, kind |-> "String", length |-> length, cls |-> ""]
_Subrecord(name, cls) ==
    [name |-> name, kind |-> "Subrecord", length |-> 0, cls |-> cls]

DateTimeRecord ==
    << _Word("year"), _Byte("month"), _Byte("day"), _Byte("hour"),
       _Byte("minute"), _Byte("second") >>

LoggerConfig ==
    << _Byte("unk0"), _Byte("unk1"), _Byte("unk2"), _Byte("unk3"),
       _Word("data_count"), _Byte("unk6"), _Byte("unk7"),
       _Long("sample_rate"), _Byte("led_flashing_interval_secs"),
       _Byte("start_condition"), _Byte("led_alarm"),
       _SWord("temp_low_alarm_100"), _SWord("temp_high_alarm_100"),
       _SWord("hum_low_alarm_100"), _SWord("hum_high_alarm_100"),
       _Byte("unk10"), _Byte("unk11"), _Byte("unk12"), _Byte("unk13"),
       _Byte("temp_unit"), _Byte("unk15"), _Byte("unk16"),
       _Subrecord("time", "DateTimeRecord"), _Byte("date_format"),
       _Byte("unk18"), _Byte("enable_display"), _Byte("stop_style"),
       _Subrecord("start_time", "DateTimeRecord"),
       _Subrecord("stop_time", "DateTimeRecord"),
       _Byte("start_delay_mins"), _Word("logger_id"), _Byte("unk19") >>

StatusRecord ==
    << _String("device_type", 16), _Subrecord("time", "DateTimeRecord"),
       _Byte("unknown1"), _String("firmware_version", 16),
       _String("serial_number", 16), _Byte("unknown2"),
       _String("unset", 2) >>

BasicConfig ==
    << _Byte("unk1"), _Byte("unk2"), _Word("data_count"),
       _Long("sample_rate"), _Byte("led_flashing_interval_secs"),
       _Byte("start_condition"), _Byte("led_alarm"),
       _SWord("temp_low_alarm_100"), _SWord("temp_high_alarm_100"),
       _SWord("hum_low_alarm_100"), _SWord("hum_high_alarm_100"),
       _Byte("temp_unit"), _Subrecord("time", "DateTimeRecord"),
       _Byte("date_format") >>

Measurement == << _SWord("temperature100"), _SWord("humidity100") >>

OwnerStartTime ==
    << _String("owner", 32), _Subrecord("start_time", "DateTimeRecord") >>

\* the _fields list of a record class
_fields(cls) ==
    CASE cls = "DateTimeRecord" -> DateTimeRecord
      [] cls = "LoggerConfig" -> LoggerConfig
      [] cls = "StatusRecord" -> StatusRecord
      [] cls = "BasicConfig" -> BasicConfig
      [] cls = "Measurement" -> Measurement
      [] cls = "OwnerStartTime" -> OwnerStartTime

FieldNames(cls) == {_fields(cls)[k].name : k \in 1..Len(_fields(cls))}

RECURSIVE SumLengths(_, _)
RECURSIVE serialized_length(_)
\* _BinaryRecord.serialized_length: the sum of the fields' lengths
serialized_length(cls) == SumLengths(_fields(cls), 1)

\* f.serialized_length() of one field
Field_serialized_length(f) ==
    IF f.kind = "Subrecord" THEN serialized_length(f.cls) ELSE f.length

SumLengths(fields, k) ==
    IF k > Len(fields) THEN 0
    ELSE Field_serialized_length(fields[k]) + SumLengths(fields, k + 1)

RECURSIVE initial_record(_)
\* f.initial_value()
initial_value(f) ==
    CASE f.kind = "String" -> << >>
      [] f.kind = "Subrecord" -> initial_record(f.cls)
      [] OTHER -> 0

\* cls(): _BinaryRecord.__init__ without keyword arguments
initial_record(cls) ==
    [n \in FieldNames(cls) |->
        initial_value(CHOOSE f \in {_fields(cls)[k] : k \in 1..Len(_fields(cls))} :
                          f.name = n)]

(***************************************************************************)
(* An operation that can raise yields [ok |-> TRUE, value] or             *)
(* [ok |-> FALSE, err].                                                    *)
(***************************************************************************)
Ok(v) == [ok |-> TRUE, value |-> v]
Raise(e) == [ok |-> FALSE, err |-> e]

(***************************************************************************)
(* Parsing.  A parse yields [ok |-> TRUE, i, value] or, where the code    *)
(* raises DlError, Raise(error).                                           *)
(***************************************************************************)
ErrRecordTooShort == "record too short"
ErrRecordTooLong == "record too long"

RECURSIVE ParseFields(_, _, _, _, _)
RECURSIVE ParseRest(_, _, _, _, _)

Parsed(v, i) == [ok |-> TRUE, i |-> i, value |-> v]

\* the value with the index _Field.parse returns beside it
WithIndex(p, i) == IF p.ok THEN Parsed(p.value, i) ELSE p

\* the fields' values with the sign of a signed word left out
Scalar_parse_unsigned(f, data, i) ==
    CASE f.kind = "Byte" -> At(data, i)
      [] f.kind = "Word" -> At(data, i) + At(data, i + 1) * 256
      [] f.kind = "SWord" -> At(data, i) + At(data, i + 1) * 256
      [] f.kind = "Long" ->
            At(data, i) + At(data, i + 1) * 256 + At(data, i + 2) * 65536
                + At(data, i + 3) * 16777216
      [] f.kind = "String" -> Slice(data, i, i + f.length)

\* f._parse_internal(data, i) of the integer and string fields
Scalar_parse_internal(f, data, i) ==
    CASE f.kind = "Byte" -> At(data, i)
      [] f.kind = "Word" -> At(data, i) + At(data, i + 1) * 256
      [] f.kind = "SWord" ->
            IF At(data, i) + At(data, i + 1) * 256 >= 32768
            THEN At(data, i) + At(data, i + 1) * 256 - 65536
            ELSE At(data, i) + At(data, i + 1) * 256
      [] f.kind = "Long" ->
            At(data, i) + At(data, i + 1) * 256 + At(data, i + 2) * 65536
                + At(data, i + 3) * 16777216
      [] f.kind = "String" -> Slice(data, i, i + f.length)

\* _Field.parse: the length check, then the field's own _parse_internal
\* (_Subrecord's is the record class's _parse_internal)
Field_parse(f, data, i) ==
    IF i + Field_serialized_length(f) > Len(data) THEN Raise(ErrRecordTooShort)
    ELSE IF f.kind = "Subrecord"
         THEN WithIndex(ParseFields(_fields(f.cls), 1, data, i, initial_record(f.cls)),
                        i + Field_serialized_length(f))
         ELSE Parsed(Scalar_parse_internal(f, data, i), i + f.length)

\* the loop of _BinaryRecord._parse_internal from field k on
ParseFields(fields, k, data, i, record) ==
    IF k > Len(fields) THEN Parsed(record, i)
    ELSE ParseRest(fields, k, data, record, Field_parse(fields[k], data, i))

\* the loop's body after f.parse(data, i) has yielded p
ParseRest(fields, k, data, record, p) ==
    IF ~p.ok THEN p
    ELSE ParseFields(fields, k + 1, data, p.i,
                     [record EXCEPT ![fields[k].name] = p.value])

\* _BinaryRecord._parse_internal
Record_parse_internal(cls, data, i) ==
    ParseFields(_fields(cls), 1, data, i, initial_record(cls))

\* the end of _BinaryRecord.parse: nothing may follow the last field
NotLonger(p, data) ==
    IF ~p.ok THEN p
    ELSE IF p.i < Len(data) THEN Raise(ErrRecordTooLong)
    ELSE Ok(p.value)

\* the parse with nothing said about what follows the last field
Record_parse_prefix(cls, data) ==
    IF Record_parse_internal(cls, data, 0).ok
    THEN Ok(Record_parse_internal(cls, data, 0).value)
    ELSE Record_parse_internal(cls, data, 0)

\* _BinaryRecord.parse
Record_parse(cls, data) == NotLonger(Record_parse_internal(cls, data, 0), data)

(***************************************************************************)
(* Serializing.  bytes([...]) raises ValueError for an element outside    *)
(* 0..255: a serialization yields Ok(bytes) or Raise(ValueError).          *)
(***************************************************************************)
ValueError == "ValueError"

RECURSIVE SerializeFields(_, _, _)

ToBytes(s) == IF IsBytes(s) THEN Ok(s) ELSE Raise(ValueError)

\* Python's v >> 8 and v & 0xff on any integer (\div rounds down, as >> does)
Shr8(v) == v \div 256
And255(v) == v % 256

\* res += more
Concat(s, rest) ==
    IF ~s.ok THEN s
    ELSE IF ~rest.ok THEN rest
    ELSE Ok(s.value \o rest.value)

\* f.serialize(v)
Field_serialize(f, v) ==
    CASE f.kind = "Byte" -> ToBytes(<< v >>)
      [] f.kind = "Word" -> ToBytes(<< And255(v), Shr8(v) >>)
      [] f.kind = "SWord" ->
            IF v < 0 THEN ToBytes(<< And255(v + 65536), Shr8(v + 65536) >>)
            ELSE ToBytes(<< And255(v), Shr8(v) >>)
      [] f.kind = "Long" ->
            ToBytes(<< v % 256, (v \div 256) % 256, (v \div 65536) % 256,
                       (v \div 16777216) % 256 >>)
      [] f.kind = "String" ->
            ToBytes(v \o Zeros(Max(0, f.length - Len(v))))
      [] f.kind = "Subrecord" -> SerializeFields(_fields(f.cls), 1, v)

\* the loop of _BinaryRecord.serialize from field k on
SerializeFields(fields, k, record) ==
    IF k > Len(fields) THEN Ok(<< >>)
    ELSE Concat(Field_serialize(fields[k], record[fields[k].name]),
                SerializeFields(fields, k + 1, record))

\* _BinaryRecord.serialize
Record_serialize(cls, record) == SerializeFields(_fields(cls), 1, record)

\* the bytes of a record whose fields are all in range
Bytes(cls, record) == Record_serialize(cls, record).value

(***************************************************************************)
(* Frame transport (_DlHidConnection).                                     *)
(***************************************************************************)
\* the errors that are DlError; ValueError is not
ErrTooShort == "response too short"
ErrFirstByte == "invalid first byte"
ErrLengthTooLarge == "response length too large"
ErrExpectedBytes == "expected bytes"
ErrPrefix == "invalid response start"
ErrDivisible == "expected number of data bytes divisible by 4"
ErrShortBlock == "too short block"
ErrTooBig == "number of data bytes too big"
ErrDuplicate == "duplicate data block"
ErrChanged == "data item added while dumping"
ErrUnsupported == "unsupported device"

IsDlError(e) == e # ValueError

\* a variant that writes len(payload) as the length byte
send_command_bare_length(command, payload) ==
    Concat(ToBytes(<< 63, Len(payload), command >>), Ok(payload))

\* buf = bytes([0x3f, len(payload) + 1, command]) + payload
send_command(command, payload) ==
    Concat(ToBytes(<< 63, Len(payload) + 1, command >>), Ok(payload))

\* a variant without the test of the length byte against the frame
run_command_unchecked_length(response) ==
    IF Len(response) < 2 THEN Raise(ErrTooShort)
    ELSE IF At(response, 0) # 63 THEN Raise(ErrFirstByte)
    ELSE Ok(Slice(response, 2, At(response, 1) + 2))

\* run_command after read_response: the envelope checks and the payload slice
run_command(response) ==
    IF Len(response) < 2 THEN Raise(ErrTooShort)
    ELSE IF At(response, 0) # 63 THEN Raise(ErrFirstByte)
    ELSE IF At(response, 1) + 2 > Len(response) THEN Raise(ErrLengthTooLarge)
    ELSE Ok(Slice(response, 2, At(response, 1) + 2))

(***************************************************************************)
(* Command layer (Dl210Th): what each method makes of run_command's       *)
(* payload.                                                                *)
(***************************************************************************)
NoLength == -1

\* _check_response(response, length, prefix); NoLength and << >> stand for None
_check_response(response, length, prefix) ==
    IF length # NoLength /\ Len(response) # length THEN Raise(ErrExpectedBytes)
    ELSE IF ~StartsWith(response, prefix) THEN Raise(ErrPrefix)
    ELSE Ok(response)

\* the inline checks of status, record_basic, record_full, get_basic_config and
\* get_settings34: the length, then the leading bytes
CheckInline(response, length, prefix) ==
    IF Len(response) # length THEN Raise(ErrExpectedBytes)
    ELSE IF Slice(response, 0, Len(prefix)) # prefix THEN Raise(ErrPrefix)
    ELSE Ok(response)

\* cls.parse(response[skip:]) of a checked response
ParseAfter(checked, skip, cls) ==
    IF ~checked.ok THEN checked
    ELSE Record_parse(cls, Slice(checked.value, skip, Len(checked.value)))

\* response[skip:] of a checked response
RestAfter(checked, skip) ==
    IF ~checked.ok THEN checked
    ELSE Ok(Slice(checked.value, skip, Len(checked.value)))

\* a checked response of a method that returns nothing
Nothing(checked) == IF ~checked.ok THEN checked ELSE Ok(<< >>)

status(response) ==
    ParseAfter(CheckInline(response, 60, << 48 >>), 1, "StatusRecord")

record_basic(response) == Nothing(CheckInline(response, 3, << 0, 0, 3 >>))

record_full(response) == Nothing(CheckInline(response, 3, << 0, 0, 17 >>))

get_basic_config(response) ==
    ParseAfter(CheckInline(response, 31, << 0, 0, 4 >>), 3, "BasicConfig")

read_sensors(response) ==
    ParseAfter(_check_response(response, 7, << 0, 0, 6 >>), 3, "Measurement")

get_serial_id(response) == _check_response(response, 16, << >>)

get_logger_config(response) ==
    ParseAfter(_check_response(response, 60, << 33 >>), 1, "LoggerConfig")

get_settings34(response) == RestAfter(CheckInline(response, 56, << 34 >>), 1)

get_owner_start_time(response) ==
    ParseAfter(_check_response(response, 40, << 35 >>), 1, "OwnerStartTime")

get_location(response) == RestAfter(_check_response(response, 33, << 36 >>), 1)

get_report_title(response) == RestAfter(_check_response(response, 41, << 37 >>), 1)

get_user_text1(response) == RestAfter(_check_response(response, 51, << 38 >>), 1)

get_user_text2(response) == RestAfter(_check_response(response, 21, << 39 >>), 1)

\* DataBlock(num, measurements)
DataBlock(num, measurements) == [num |-> num, measurements |-> measurements]

\* _decode_block: the number, big-endian, then (len(encoded) - 2) // 4 measurements
_decode_block(encoded) ==
    DataBlock(At(encoded, 0) * 256 + At(encoded, 1),
              [m \in 1..((Len(encoded) - 2) \div 4) |->
                  Record_parse("Measurement",
                               Slice(encoded, 2 + 4 * (m - 1), 6 + 4 * (m - 1))).value])

\* the request payload of get_data_block(n): bytes([n >> 8, n & 0xff])
get_data_block_req(n) == ToBytes(<< Shr8(n), And255(n) >>)

\* get_data_block with the test of the response's start left out
get_data_block_any(n, response) ==
    IF Len(response) < 2 THEN Raise(ErrExpectedBytes)
    ELSE IF (Len(response) - 2) % 4 # 0 THEN Raise(ErrDivisible)
    ELSE Ok(_decode_block(response))

\* get_data_block(n) after run_command
get_data_block(n, response) ==
    IF ~_check_response(response, NoLength, get_data_block_req(n).value).ok
    THEN Raise(ErrPrefix)
    ELSE IF Len(response) < 2 THEN Raise(ErrExpectedBytes)
    ELSE IF (Len(response) - 2) % 4 # 0 THEN Raise(ErrDivisible)
    ELSE Ok(_decode_block(response))

(***************************************************************************)
(* Calendar time: DateTimeRecord.to_datetime builds a datetime.datetime,  *)
(* which raises ValueError for a field outside the calendar.               *)
(***************************************************************************)
IsLeap(y) == (y % 4 = 0) /\ ((y % 100 # 0) \/ (y % 400 = 0))

DaysInMonth(y, m) ==
    CASE m = 2 -> IF IsLeap(y) THEN 29 ELSE 28
      [] m \in {4, 6, 9, 11} -> 30
      [] OTHER -> 31

to_datetime(t) ==
    IF /\ t.year \in 1..9999
       /\ t.month \in 1..12
       /\ t.day \in 1..DaysInMonth(t.year, t.month)
       /\ t.hour \in 0..23
       /\ t.minute \in 0..59
       /\ t.second \in 0..59
    THEN Ok(<< t.year, t.month, t.day, t.hour, t.minute, t.second >>)
    ELSE Raise(ValueError)

(***************************************************************************)
(* The device, as far as the client sees it: for each read, one frame out *)
(* of a finite set.  Bounds of the model:                                  *)
(*   MaxBlocks  the largest number of blocks a reported data_count needs   *)
(*   MaxReads   the largest number of reads of one dump (the device stops  *)
(*              streaming, at the latest by a read that times out)         *)
(***************************************************************************)
MaxBlocks == 3
MaxReads == 4

per_block == 15

DateTime(y, mo, d, h, mi, s) ==
    [year |-> y, month |-> mo, day |-> d, hour |-> h, minute |-> mi, second |-> s]

T0 == DateTime(2024, 2, 29, 23, 59, 59)
T1 == DateTime(2024, 3, 1, 0, 0, 0)
\* no calendar date: 2023 has no 29 February
TBad == DateTime(2023, 2, 29, 0, 0, 0)

\* the data_count values the device reports: none, a last block of 2, and
\* full blocks only, each with the times it reports beside them
PartCount == per_block * (MaxBlocks - 1) + 2
FullCount == per_block * MaxBlocks
DevConfigs ==
    { << 0, T0 >>, << FullCount, T0 >>,
      << PartCount, T0 >>, << PartCount, T1 >>, << PartCount, TBad >> }

DevBasicConfig(dc, t) ==
    [initial_record("BasicConfig") EXCEPT
        !.data_count = dc, !.sample_rate = 60, !.temp_low_alarm_100 = -500,
        !.temp_high_alarm_100 = 4000, !.time = t]

DevLoggerConfig(dc, t) ==
    [initial_record("LoggerConfig") EXCEPT
        !.data_count = dc, !.sample_rate = 86399, !.hum_low_alarm_100 = -1,
        !.time = t, !.start_time = T0, !.stop_time = T1, !.logger_id = 513]

\* "DL-210TH" and other texts, as ASCII
Ascii_DL210TH == << 68, 76, 45, 50, 49, 48, 84, 72 >>
Ascii_DL200T == << 68, 76, 45, 50, 48, 48, 84 >>

Spaces(k) == [j \in 1..k |-> 32]

DevStatus(device_type) ==
    [initial_record("StatusRecord") EXCEPT
        !.device_type = device_type, !.time = T0,
        !.firmware_version = Zeros(16), !.serial_number = Zeros(16),
        !.unset = Zeros(2)]

\* the device's envelope around a payload, and a HID report filled up to 64 bytes
Resp(payload) == << 63, Len(payload) >> \o payload
ReportLen == 64
PadTo64(frame) == frame \o Zeros(ReportLen - Len(frame))

\* measurement p (from 0) of block k; v tells streamed (0) from fetched (1) data
Meas(k, p, v) ==
    [temperature100 |-> per_block * (k - 1) + p - 20, humidity100 |-> v]

RECURSIVE MeasBytes(_, _, _, _)
MeasBytes(k, p, c, v) ==
    IF p >= c THEN << >>
    ELSE Record_serialize("Measurement", Meas(k, p, v)).value
             \o MeasBytes(k, p + 1, c, v)

\* an encoded block: number k, big-endian, and c measurements
BlockBytes(k, c, v) == << k \div 256, k % 256 >> \o MeasBytes(k, 0, c, v)

\* what the device may answer when nothing it says can be trusted
BadFrames ==
    { << >>, << 63 >>, PadTo64(<< 62, 3, 0, 0, 4 >>), << 63, 5, 0, 0 >> }

\* the payloads of well-formed answers to each command
ValidPayloads(code, payload) ==
    CASE code = 48 ->
            {<< 48 >> \o Record_serialize("StatusRecord", DevStatus(d)).value :
                d \in {Ascii_DL210TH \o Spaces(8), Spaces(2) \o Ascii_DL210TH \o Spaces(6),
                       Ascii_DL210TH \o Zeros(8), Ascii_DL200T \o Spaces(9)}}
      [] code = 3 -> {<< 0, 0, 3 >>}
      [] code = 17 -> {<< 0, 0, 17 >>}
      [] code = 4 ->
            {<< 0, 0, 4 >> \o Record_serialize("BasicConfig", DevBasicConfig(c[1], c[2])).value :
                c \in DevConfigs}
      [] code = 6 ->
            {<< 0, 0, 6 >> \o Record_serialize("Measurement", Meas(1, 0, 0)).value}
      [] code = 12 -> {Zeros(16)}
      [] code = 33 ->
            {<< 33 >> \o Record_serialize("LoggerConfig", DevLoggerConfig(per_block, T0)).value}
      [] code = 34 -> {<< 34 >> \o Zeros(55)}
      [] code = 35 -> {<< 35 >> \o Zeros(39)}
      [] code = 36 -> {<< 36 >> \o Zeros(32)}
      [] code = 37 -> {<< 37 >> \o Zeros(40)}
      [] code = 38 -> {<< 38 >> \o Zeros(50)}
      [] code = 39 -> {<< 39 >> \o Zeros(20)}
      [] code = 2 ->
            {BlockBytes(At(payload, 0) * 256 + At(payload, 1), c, 1) :
                c \in {2, per_block}}

\* answers of the right envelope and the wrong shape
Misshapen(some) ==
    { SubSeq(some, 1, Len(some) - 1), << (some[1] + 1) % 256 >> \o Tail(some) }

MisshapenPayloads(code, payload) ==
    Misshapen(CHOOSE p \in ValidPayloads(code, payload) : TRUE)

DeviceResponses(code, payload) ==
    {PadTo64(Resp(p)) : p \in ValidPayloads(code, payload)}
        \cup {PadTo64(Resp(p)) : p \in MisshapenPayloads(code, payload)}
        \cup BadFrames

\* the frames of a dump stream
StreamData ==
    {PadTo64(Resp(BlockBytes(k, per_block, 0))) : k \in 0..MaxBlocks}
        \cup {PadTo64(Resp(BlockBytes(MaxBlocks, 2, 0))), PadTo64(<< 63, 2, 0, 1 >>)}

StreamEnd ==
    { << >>, PadTo64(<< 63, 3, 0, 0, 5 >>), PadTo64(<< 63, 3, 1, 2, 3 >>),
      << 63 >>, PadTo64(<< 62, 3, 0, 0, 5 >>), PadTo64(<< 63, 1, 0 >>),
      << 63, 10, 0, 1 >>, PadTo64(<< 63, 7, 0, 1, 2, 3, 4, 5, 6 >>) }

(***************************************************************************)
(* Pure parts of Dl210Th.__init__, dump_data and _try_read_measurements.  *)
(***************************************************************************)
\* the characters str.strip() removes, among those ASCII decodes to
Whitespace == {9, 10, 11, 12, 13, 28, 29, 30, 31, 32}

RECURSIVE LStrip(_)
LStrip(b) == IF b # << >> /\ Head(b) \in Whitespace THEN LStrip(Tail(b)) ELSE b

RECURSIVE RStrip(_)
RStrip(b) ==
    IF b # << >> /\ b[Len(b)] \in Whitespace THEN RStrip(SubSeq(b, 1, Len(b) - 1))
    ELSE b

\* the test of the device type with any device of the DL- family let through
IsSupported_family(device_type) ==
    StartsWith(RStrip(LStrip(device_type)), << 68, 76, 45 >>)

\* s.device_type.decode("ascii", errors="replace").strip() == "DL-210TH"
IsSupported(device_type) == RStrip(LStrip(device_type)) = Ascii_DL210TH

\* result[k] is None
None == DataBlock(-1, << >>)

\* the pass with a frame of declared length 2 decoded as a block
dump_frame_empty_block(r) ==
    IF Len(r) < 2 THEN Raise(ErrTooShort)
    ELSE IF At(r, 0) # 63 THEN Raise(ErrFirstByte)
    ELSE IF At(r, 1) < 2 THEN Raise(ErrShortBlock)
    ELSE IF At(r, 1) > Len(r) - 2 THEN Raise(ErrTooBig)
    ELSE IF At(r, 1) = 3 THEN Ok([kind |-> "break", block |-> None])
    ELSE IF (At(r, 1) - 2) % 4 # 0 THEN Raise(ErrDivisible)
    ELSE Ok([kind |-> "block", block |-> _decode_block(Slice(r, 2, 2 + At(r, 1)))])

\* one pass of the loop of dump_data over the frame r just read: it raises, or
\* it ends the loop, goes on to the next read, or appends a block and goes on
dump_frame(r) ==
    IF Len(r) < 2 THEN Raise(ErrTooShort)
    ELSE IF At(r, 0) # 63 THEN Raise(ErrFirstByte)
    ELSE LET l == At(r, 1)
         IN  IF l < 2 THEN Raise(ErrShortBlock)
             ELSE IF l > Len(r) - 2 THEN Raise(ErrTooBig)
             ELSE IF l = 2 THEN Ok([kind |-> "continue", block |-> None])
             ELSE IF l = 3 THEN Ok([kind |-> "break", block |-> None])
             ELSE IF (l - 2) % 4 # 0 THEN Raise(ErrDivisible)
             ELSE Ok([kind |-> "block",
                      block |-> _decode_block(Slice(r, 2, 2 + l))])

\* the pass with the test of an empty read left out
dump_frame_no_timeout(r) == dump_frame(r)

\* the pass with the test of the end marker left out: a frame of declared
\* length 3 is passed over as an empty one is
dump_frame_no_marker(r) ==
    IF Len(r) >= 5 /\ At(r, 0) = 63 /\ At(r, 1) = 3
    THEN Ok([kind |-> "continue", block |-> None])
    ELSE IF Len(r) = 0 THEN Ok([kind |-> "break", block |-> None])
    ELSE dump_frame(r)

\* the pass with three bytes that are not the end marker taken as an error
dump_frame_strict(r) ==
    IF Len(r) = 0 THEN Ok([kind |-> "break", block |-> None])
    ELSE IF Len(r) >= 5 /\ At(r, 0) = 63 /\ At(r, 1) = 3
            /\ ~StartsWith(Slice(r, 2, Len(r)), << 0, 0, 5 >>)
    THEN Raise(ErrShortBlock)
    ELSE dump_frame(r)

\* if not r: break, and else the rest of the pass
dump_step(r) ==
    IF Len(r) = 0 THEN Ok([kind |-> "break", block |-> None])
    ELSE dump_frame(r)

\* a variant that rounds down
expected_blocks_floor(config) == config.data_count \div per_block

expected_blocks(config) == (config.data_count + (per_block - 1)) \div per_block

RECURSIVE fold_nearest(_, _, _)
\* the first loop with a block of a number out of range put in the nearest
\* slot
fold_nearest(blocks, k, res) ==
    IF k > Len(blocks) THEN Ok(res)
    ELSE IF Len(res) = 0 THEN fold_nearest(blocks, k + 1, res)
    ELSE IF res[Max(1, Min(blocks[k].num, Len(res)))] # None THEN Raise(ErrDuplicate)
    ELSE fold_nearest(blocks, k + 1,
                      [res EXCEPT ![Max(1, Min(blocks[k].num, Len(res)))] = blocks[k]])

RECURSIVE fold(_, _, _)
\* the first loop of _try_read_measurements from blocks[k] on
fold(blocks, k, res) ==
    IF k > Len(blocks) THEN Ok(res)
    ELSE LET b == blocks[k]
         IN  IF b.num < 1 \/ b.num > Len(res) THEN fold(blocks, k + 1, res)
             ELSE IF res[b.num] # None THEN Raise(ErrDuplicate)
             ELSE fold(blocks, k + 1, [res EXCEPT ![b.num] = b])

\* the second loop's test: slot j (from 0) is fetched again
NeedsFetch(res, j) ==
    res[j + 1] = None \/ Len(res[j + 1].measurements) < per_block

\* the next slot at or after j that the second loop fetches, or len(result)
NextFetch(res, j) ==
    IF \E k \in j..(Len(res) - 1) : NeedsFetch(res, k)
    THEN CHOOSE k \in j..(Len(res) - 1) :
            NeedsFetch(res, k) /\ \A m \in j..(k - 1) : ~NeedsFetch(res, m)
    ELSE Len(res)

\* a variant that keeps the last retry back
ShouldRetry_positive(nr) == nr > 0

\* if num_retries >= 0: continue
ShouldRetry(nr) == nr >= 0

\* the comparison that ends _try_read_measurements
consistent(before, after) ==
    IF before.data_count # after.data_count THEN Raise(ErrChanged)
    ELSE LET tb == to_datetime(before.time)
             ta == to_datetime(after.time)
         IN  IF ~tb.ok THEN tb
             ELSE IF ~ta.ok THEN ta
             ELSE IF tb.value # ta.value THEN Raise(ErrChanged)
             ELSE Ok(after)

(***************************************************************************)
(* The program's state.                                                    *)
(***************************************************************************)
VARIABLES
    pc,            \* where the program is
    cmd,           \* the method of Dl210Th in progress: [name, arg]
    out,           \* the frame last written to the device
    wire,          \* [cmd: code last written, reads: reads since that write]
    received,      \* the frame read_response returned last
    channel,       \* [fifo: frames emitted and not yet read, device: frames yet to emit]
    num_retries,   \* read_measurements
    attempts,      \* how often read_measurements has entered _try_read_measurements
    onlyChanged,   \* every failed attempt so far raised the data-changed error
    state_before,  \* _try_read_measurements
    state_after,
    dump_n,        \* dump_data: the block number expected next
    dump,          \* dump_data: the blocks read; blocks in _try_read_measurements
    result,        \* _try_read_measurements
    idx,           \* the index of the second loop of _try_read_measurements
    fetched,       \* the block numbers asked for with get_data_block in this attempt
    ret            \* the outcome of the call: Ok(value) or Raise(error)

vars == << pc, cmd, out, wire, received, channel, num_retries, attempts, onlyChanged,
           state_before, state_after, dump_n, dump, result, idx, fetched, ret >>

NoChannel == [fifo |-> << >>, device |-> << >>]
NoCmd == [name |-> "", arg |-> 0]
NoConfig == [none |-> TRUE]
NoRet == [ok |-> FALSE, err |-> ""]

dumpVars == << num_retries, attempts, onlyChanged, state_before, state_after,
               dump_n, dump, result, idx, fetched >>

Init ==
    /\ pc = "new"
    /\ cmd = NoCmd
    /\ out = << >>
    /\ wire = [cmd |-> 0, reads |-> 0]
    /\ received = << >>
    /\ channel = NoChannel
    /\ num_retries = 0
    /\ attempts = 0
    /\ onlyChanged = TRUE
    /\ state_before = NoConfig
    /\ state_after = NoConfig
    /\ dump_n = 0
    /\ dump = << >>
    /\ result = << >>
    /\ idx = 0
    /\ fetched = << >>
    /\ ret = NoRet

\* self._dev.write(buf) in send_command
Write(command, payload) ==
    /\ out' = send_command(command, payload).value
    /\ wire' = [cmd |-> command, reads |-> 0]

\* a variant that reads twice
Read_twice(r) ==
    /\ wire' = [wire EXCEPT !.reads = @ + 2]
    /\ received' = r
    /\ UNCHANGED channel

\* self._dev.read(64, _TIMEOUT) in read_response
Read(r) ==
    /\ wire' = [wire EXCEPT !.reads = @ + 1]
    /\ received' = r
    /\ UNCHANGED channel

(***************************************************************************)
(* The methods of Dl210Th that run one command.                            *)
(***************************************************************************)
CommandCode(name) ==
    CASE name = "status" -> 48
      [] name = "record_basic" -> 3
      [] name = "record_full" -> 17
      [] name = "get_basic_config" -> 4
      [] name = "read_sensors" -> 6
      [] name = "get_serial_id" -> 12
      [] name = "get_logger_config" -> 33
      [] name = "get_settings34" -> 34
      [] name = "get_owner_start_time" -> 35
      [] name = "get_location" -> 36
      [] name = "get_report_title" -> 37
      [] name = "get_user_text1" -> 38
      [] name = "get_user_text2" -> 39
      [] name = "get_data_block" -> 2
      [] name = "dump_data" -> 1

\* the payload the method passes to run_command
Payload(c) ==
    CASE c.name = "record_basic" -> Record_serialize("BasicConfig", c.arg)
      [] c.name = "record_full" -> Record_serialize("LoggerConfig", c.arg)
      [] c.name = "get_data_block" -> get_data_block_req(c.arg)
      [] OTHER -> Ok(<< >>)

\* what the method makes of run_command's payload
Interpret(c, response) ==
    CASE c.name = "status" -> status(response)
      [] c.name = "record_basic" -> record_basic(response)
      [] c.name = "record_full" -> record_full(response)
      [] c.name = "get_basic_config" -> get_basic_config(response)
      [] c.name = "read_sensors" -> read_sensors(response)
      [] c.name = "get_serial_id" -> get_serial_id(response)
      [] c.name = "get_logger_config" -> get_logger_config(response)
      [] c.name = "get_settings34" -> get_settings34(response)
      [] c.name = "get_owner_start_time" -> get_owner_start_time(response)
      [] c.name = "get_location" -> get_location(response)
      [] c.name = "get_report_title" -> get_report_title(response)
      [] c.name = "get_user_text1" -> get_user_text1(response)
      [] c.name = "get_user_text2" -> get_user_text2(response)
      [] c.name = "get_data_block" -> get_data_block(c.arg, response)

\* the method applied to the frame r read by run_command
AnswerTo(c, e) == IF e.ok THEN Interpret(c, e.value) ELSE e
Answer(c, r) == AnswerTo(c, run_command(r))

(***************************************************************************)
(* Dl210Th.__init__: status(), then the device type.                       *)
(***************************************************************************)
Init_send ==
    /\ UNCHANGED << received, channel >>
    /\ pc = "new"
    /\ Write(48, << >>)
    /\ pc' = "init_recv"
    /\ cmd' = [name |-> "status", arg |-> 0]
    /\ UNCHANGED << dumpVars, ret >>

\* __init__ once status() has yielded s
Init_check(s) ==
    IF ~s.ok THEN pc' = "failed" /\ ret' = s
    ELSE IF ~IsSupported(s.value.device_type)
         THEN pc' = "failed" /\ ret' = Raise(ErrUnsupported)
         ELSE pc' = "idle" /\ ret' = NoRet

Init_recv ==
    /\ pc = "init_recv"
    /\ \E r \in DeviceResponses(48, << >>) : Read(r) /\ Init_check(Answer(cmd, r))
    /\ cmd' = NoCmd
    /\ UNCHANGED << out, dumpVars >>

\* the calls the model's caller makes
BasicConfigArgs ==
    { DevBasicConfig(0, T1),
      [DevBasicConfig(0, T0) EXCEPT !.hum_high_alarm_100 = -32768, !.sample_rate = 86399],
      [DevBasicConfig(0, T0) EXCEPT !.temp_unit = 256] }

LoggerConfigArgs ==
    { DevLoggerConfig(0, T1),
      [DevLoggerConfig(0, T0) EXCEPT !.start_condition = 3, !.temp_low_alarm_100 = -4000],
      [DevLoggerConfig(0, T0) EXCEPT !.logger_id = 65536] }

Calls ==
    {[name |-> m, arg |-> 0] :
        m \in {"status", "get_basic_config", "read_sensors", "get_serial_id",
               "get_logger_config", "get_settings34", "get_owner_start_time",
               "get_location", "get_report_title", "get_user_text1",
               "get_user_text2"}}
      \cup {[name |-> "record_basic", arg |-> a] : a \in BasicConfigArgs}
      \cup {[name |-> "record_full", arg |-> a] : a \in LoggerConfigArgs}
      \cup {[name |-> "get_data_block", arg |-> a] : a \in {1, 300}}

Callable == pc \in {"idle", "returned", "raised"}

ResetDump ==
    /\ num_retries' = 0
    /\ attempts' = 0
    /\ onlyChanged' = TRUE
    /\ state_before' = NoConfig
    /\ state_after' = NoConfig
    /\ dump_n' = 0
    /\ dump' = << >>
    /\ result' = << >>
    /\ idx' = 0
    /\ fetched' = << >>

\* the caller calls one of the methods
Invoke ==
    /\ UNCHANGED << received, channel >>
    /\ Callable
    /\ \E c \in Calls : cmd' = c
    /\ pc' = "cmd_send"
    /\ ret' = NoRet
    /\ ResetDump
    /\ UNCHANGED << out, wire >>

\* the payload, then send_command within run_command
\* run_command(code, p) up to its read, unless building the payload p raised
Send(code, p, next) ==
    IF p.ok THEN Write(code, p.value) /\ pc' = next /\ ret' = ret
    ELSE pc' = "raised" /\ ret' = p /\ UNCHANGED << out, wire >>

Cmd_send ==
    /\ UNCHANGED << received, channel >>
    /\ pc = "cmd_send"
    /\ Send(CommandCode(cmd.name), Payload(cmd), "cmd_recv")
    /\ UNCHANGED << cmd, dumpVars >>

\* the method returns a.value or raises a.err
Cmd_return(a) == ret' = a /\ pc' = IF a.ok THEN "returned" ELSE "raised"

\* read_response within run_command, then the method's checks
Cmd_recv ==
    /\ pc = "cmd_recv"
    /\ \E r \in DeviceResponses(CommandCode(cmd.name), Payload(cmd).value) :
            Read(r) /\ Cmd_return(Answer(cmd, r))
    /\ UNCHANGED << cmd, out, dumpVars >>

(***************************************************************************)
(* read_measurements and _try_read_measurements.                           *)
(***************************************************************************)
GetBasicConfig == [name |-> "get_basic_config", arg |-> 0]
GetDataBlock(k) == [name |-> "get_data_block", arg |-> k]

\* the frames r the device may answer get_basic_config with, each with what
\* the method makes of it: << r, get_basic_config's outcome >>
ConfigAnswers == {<< r, Answer(GetBasicConfig, r) >> : r \in DeviceResponses(4, << >>)}

\* the same for get_data_block(k)
BlockAnswers ==
    [k \in 1..MaxBlocks |->
        {<< r, Answer(GetDataBlock(k), r) >> :
            r \in DeviceResponses(2, Payload(GetDataBlock(k)).value)}]

\* the frames r of a dump stream, each with the loop's pass over it
StreamSteps == {<< r, dump_step(r) >> : r \in StreamData}
StreamEndSteps == {<< r, dump_step(r) >> : r \in StreamEnd}

\* the caller calls read_measurements(dl)
Read_measurements ==
    /\ UNCHANGED << received, channel >>
    /\ Callable
    /\ pc' = "rm_try"
    /\ cmd' = NoCmd
    /\ ret' = NoRet
    /\ num_retries' = 5
    /\ attempts' = 0
    /\ onlyChanged' = TRUE
    /\ state_before' = NoConfig
    /\ state_after' = NoConfig
    /\ dump_n' = 0
    /\ dump' = << >>
    /\ result' = << >>
    /\ idx' = 0
    /\ fetched' = << >>
    /\ UNCHANGED << out, wire >>

\* the try statement enters _try_read_measurements
Try ==
    /\ UNCHANGED << received, channel >>
    /\ pc = "rm_try"
    /\ attempts' = attempts + 1
    /\ pc' = "gbc1_send"
    /\ cmd' = GetBasicConfig
    /\ state_before' = NoConfig
    /\ state_after' = NoConfig
    /\ fetched' = << >>
    /\ UNCHANGED << out, wire, num_retries, onlyChanged, dump_n, dump, result, idx, ret >>

\* an exception r leaves _try_read_measurements, whose frame is dropped; the
\* except clause of read_measurements takes a DlError and nothing else
Fail(r) ==
    /\ ret' = r
    /\ pc' = IF IsDlError(r.err) THEN "except" ELSE "raised"
    /\ cmd' = NoCmd
    /\ dump_n' = 0
    /\ dump' = << >>
    /\ result' = << >>
    /\ idx' = 0

Gbc1_send ==
    /\ UNCHANGED << received, channel >>
    /\ pc = "gbc1_send"
    /\ Send(4, Payload(cmd), "gbc1_recv")
    /\ UNCHANGED << cmd, dumpVars >>

\* state_before = dl.get_basic_config()
Gbc1_got(a) ==
    IF a.ok
    THEN /\ state_before' = a.value
         /\ pc' = "dump_send"
         /\ cmd' = [name |-> "dump_data", arg |-> 0]
         /\ UNCHANGED << dump_n, dump, result, idx, ret >>
    ELSE Fail(a) /\ state_before' = state_before

Gbc1_recv ==
    /\ pc = "gbc1_recv"
    /\ \E ra \in ConfigAnswers : Read(ra[1]) /\ Gbc1_got(ra[2])
    /\ UNCHANGED << out, num_retries, attempts, onlyChanged, state_after, fetched >>

\* dump_data up to its loop
Dump_send ==
    /\ UNCHANGED << received, channel >>
    /\ pc = "dump_send"
    /\ Write(1, << >>)
    /\ dump_n' = 1
    /\ dump' = << >>
    /\ pc' = "dump_read"
    /\ UNCHANGED << cmd, num_retries, attempts, onlyChanged, state_before,
                    state_after, result, idx, fetched, ret >>

\* the second loop left at once for the second get_basic_config
Fill_to_config(res, j) ==
    /\ result' = res
    /\ idx' = j
    /\ cmd' = GetBasicConfig
    /\ pc' = "gbc2_send"

\* the second loop of _try_read_measurements up to its next get_data_block at
\* slot j, or to the second get_basic_config when j is len(result)
Fill_to(res, j) ==
    /\ result' = res
    /\ idx' = j
    /\ IF j < Len(res)
       THEN cmd' = GetDataBlock(j + 1) /\ pc' = "gdb_send"
       ELSE cmd' = GetBasicConfig /\ pc' = "gbc2_send"

\* result = [None] * expected_blocks and the first loop, which has yielded f
Fold_got(f) ==
    IF f.ok
    THEN /\ \E j \in {NextFetch(f.value, 0)} : Fill_to(f.value, j)
         /\ UNCHANGED << dump_n, dump, ret >>
    ELSE Fail(f)

\* the rest of the loop's pass; when the loop ends dump_data returns blocks to
\* _try_read_measurements, which goes on to its first loop
Dump_got(st) ==
    IF ~st.ok THEN Fail(st)
    ELSE IF st.value.kind = "break"
    THEN \E f \in {fold(dump, 1, [k \in 1..expected_blocks(state_before) |-> None])} :
            Fold_got(f)
    ELSE /\ dump_n' = IF st.value.kind = "block" THEN st.value.block.num + 1 ELSE dump_n
         /\ dump' = IF st.value.kind = "block" THEN Append(dump, st.value.block)
                    ELSE dump
         /\ UNCHANGED << pc, cmd, result, idx, ret >>

\* the frames the device may send at this read of the stream
StreamFrames ==
    IF wire.reads < MaxReads - 1 THEN StreamSteps \cup StreamEndSteps
    ELSE StreamEndSteps

\* one pass of the loop of dump_data
Dump_read ==
    /\ pc = "dump_read"
    /\ \E rs \in StreamFrames : Read(rs[1]) /\ Dump_got(rs[2])
    /\ UNCHANGED << out, num_retries, attempts, onlyChanged, state_before,
                    state_after, fetched >>

(***************************************************************************)
(* dump_data called on its own.                                            *)
(***************************************************************************)
\* the caller calls dl.dump_data()
Dump_data ==
    /\ Callable
    /\ pc' = "dd_send"
    /\ cmd' = [name |-> "dump_data", arg |-> 0]
    /\ ret' = NoRet
    /\ ResetDump
    /\ UNCHANGED << out, wire, received, channel >>

\* dump_data up to its loop
Dd_send ==
    /\ pc = "dd_send"
    /\ Write(1, << >>)
    /\ dump_n' = 1
    /\ dump' = << >>
    /\ pc' = "dd_read"
    /\ UNCHANGED << cmd, received, channel, num_retries, attempts, onlyChanged, state_before,
                    state_after, result, idx, fetched, ret >>

\* the rest of the pass with a block out of sequence taken as an error
Dd_got_in_sequence(st) ==
    IF ~st.ok
    THEN ret' = st /\ pc' = "raised" /\ dump_n' = 0 /\ dump' = << >>
    ELSE IF st.value.kind = "break"
    THEN ret' = Ok(dump) /\ pc' = "returned" /\ UNCHANGED << dump_n, dump >>
    ELSE IF st.value.kind = "block" /\ st.value.block.num # dump_n
    THEN ret' = Raise(ErrFirstByte) /\ pc' = "raised" /\ dump_n' = 0 /\ dump' = << >>
    ELSE /\ dump_n' = IF st.value.kind = "block" THEN st.value.block.num + 1 ELSE dump_n
         /\ dump' = IF st.value.kind = "block" THEN Append(dump, st.value.block)
                    ELSE dump
         /\ UNCHANGED << pc, ret >>

\* the rest of the loop's pass: dump_data raises, returns data, or goes on
Dd_got(st) ==
    IF ~st.ok
    THEN ret' = st /\ pc' = "raised" /\ dump_n' = 0 /\ dump' = << >>
    ELSE IF st.value.kind = "break"
    THEN ret' = Ok(dump) /\ pc' = "returned" /\ UNCHANGED << dump_n, dump >>
    ELSE /\ dump_n' = IF st.value.kind = "block" THEN st.value.block.num + 1 ELSE dump_n
         /\ dump' = IF st.value.kind = "block" THEN Append(dump, st.value.block)
                    ELSE dump
         /\ UNCHANGED << pc, ret >>

\* one pass of the loop of dump_data
Dd_read ==
    /\ pc = "dd_read"
    /\ \E rs \in StreamFrames : Read(rs[1]) /\ Dd_got(rs[2])
    /\ UNCHANGED << cmd, out, num_retries, attempts, onlyChanged, state_before,
                    state_after, result, idx, fetched >>

Gdb_send ==
    /\ UNCHANGED << received, channel >>
    /\ pc = "gdb_send"
    /\ Send(2, Payload(cmd), "gdb_recv")
    /\ fetched' = Append(fetched, cmd.arg)
    /\ UNCHANGED << cmd, num_retries, attempts, onlyChanged, state_before,
                    state_after, dump_n, dump, result, idx >>

\* the second loop goes on after slot i
Filled(res) ==
    /\ \E j \in {NextFetch(res, idx + 1)} : Fill_to(res, j)
    /\ UNCHANGED << dump_n, dump, ret >>

\* result[i] = dl.get_data_block(i + 1)
Gdb_got(a) ==
    IF a.ok
    THEN \E res \in {[result EXCEPT ![idx + 1] = a.value]} : Filled(res)
    ELSE Fail(a)

Gdb_recv ==
    /\ pc = "gdb_recv"
    /\ \E ra \in BlockAnswers[cmd.arg] : Read(ra[1]) /\ Gdb_got(ra[2])
    /\ UNCHANGED << out, num_retries, attempts, onlyChanged, state_before,
                    state_after, fetched >>

Gbc2_send ==
    /\ UNCHANGED << received, channel >>
    /\ pc = "gbc2_send"
    /\ Send(4, Payload(cmd), "gbc2_recv")
    /\ UNCHANGED << cmd, dumpVars >>

\* the comparison of the two configurations, and the return
Finish(c) ==
    IF c.ok
    THEN /\ pc' = "returned"
         /\ ret' = Ok(<< >>)
         /\ cmd' = NoCmd
         /\ UNCHANGED << dump_n, dump, result, idx >>
    ELSE Fail(c)

\* state_after = dl.get_basic_config() and what follows it
Gbc2_got(a) ==
    IF a.ok
    THEN state_after' = a.value /\ Finish(consistent(state_before, a.value))
    ELSE state_after' = state_after /\ Fail(a)

Gbc2_recv ==
    /\ pc = "gbc2_recv"
    /\ \E ra \in ConfigAnswers : Read(ra[1]) /\ Gbc2_got(ra[2])
    /\ UNCHANGED << out, num_retries, attempts, onlyChanged, state_before, fetched >>

\* the except clause of read_measurements
Except ==
    /\ UNCHANGED << received, channel >>
    /\ pc = "except"
    /\ num_retries' = num_retries - 1
    /\ onlyChanged' = (onlyChanged /\ ret.err = ErrChanged)
    /\ IF ShouldRetry(num_retries - 1)
       THEN pc' = "rm_try" /\ ret' = NoRet
       ELSE pc' = "raised" /\ ret' = ret
    /\ UNCHANGED << cmd, out, wire, attempts, state_before, state_after, dump_n, dump,
                    result, idx, fetched >>

Next ==
    \/ Init_send \/ Init_recv
    \/ Invoke \/ Cmd_send \/ Cmd_recv
    \/ Read_measurements \/ Try
    \/ Gbc1_send \/ Gbc1_recv
    \/ Dump_send \/ Dump_read
    \/ Dump_data \/ Dd_send \/ Dd_read
    \/ Gdb_send \/ Gdb_recv
    \/ Gbc2_send \/ Gbc2_recv
    \/ Except

Spec == Init /\ [][Next]_vars

(***************************************************************************)
(* run_command on its own, over every frame length a read can return.      *)
(***************************************************************************)
\* frames of every length up to a report's, told apart by their first two
\* bytes; the bytes after them are numbered, so that slices differ
FirstBytes == {0, 62, 63, 255}
LengthBytes == {0, 1, 2, ReportLen - 2, ReportLen - 1, 255}

Numbered(len, b0, b1) ==
    [j \in 1..len |-> IF j = 1 THEN b0 ELSE IF j = 2 THEN b1 ELSE j]

AnyResponses ==
    {Numbered(len, b0, b1) : len \in 0..ReportLen, b0 \in FirstBytes, b1 \in LengthBytes}

EnvelopeInit ==
    /\ pc = "run_command"
    /\ cmd = NoCmd
    /\ out = << >>
    /\ wire = [cmd |-> 0, reads |-> 0]
    /\ received = << >>
    /\ channel = NoChannel
    /\ num_retries = 0
    /\ attempts = 0
    /\ onlyChanged = TRUE
    /\ state_before = NoConfig
    /\ state_after = NoConfig
    /\ dump_n = 0
    /\ dump = << >>
    /\ result = << >>
    /\ idx = 0
    /\ fetched = << >>
    /\ ret = NoRet

\* run_command(command) up to its read
RunCommand_send ==
    /\ pc = "run_command"
    /\ Write(12, << >>)
    /\ pc' = "run_command_recv"
    /\ ret' = NoRet
    /\ UNCHANGED << cmd, received, channel, dumpVars >>

\* read_response and the rest of run_command
RunCommand_recv ==
    /\ pc = "run_command_recv"
    /\ \E r \in AnyResponses : Read(r) /\ ret' = run_command(r)
    /\ pc' = "run_command"
    /\ UNCHANGED << cmd, out, dumpVars >>

EnvelopeNext == RunCommand_send \/ RunCommand_recv

EnvelopeSpec == EnvelopeInit /\ [][EnvelopeNext]_vars

(***************************************************************************)
(* The record layer on its own: a record of one of the classes is          *)
(* serialized, and a buffer is parsed as a record of its class.  The       *)
(* buffer is the serialized record, a part of it, or it with bytes after   *)
(* it.  cmd holds the class and the record, out the serialized bytes,      *)
(* received the buffer and ret what serialize or parse has yielded.        *)
(***************************************************************************)
Classes ==
    {"DateTimeRecord", "LoggerConfig", "StatusRecord", "BasicConfig", "Measurement",
     "OwnerStartTime"}

\* the values the records' fields are drawn from: the ends of each range
\* and values between them that differ in every byte (of a long's range, the
\* part below 2^31, which is as far as the integers checked go)
Picks == 0..3
ByteValues == << 0, 255, 7, 128 >>
WordValues == << 0, 65535, 258, 32768 >>
SWordValues == << -32768, 32767, -1, 256 >>
LongValues == << 0, 2147483647, 16909060, 8421504 >>
Int16Samples == {-32768, -32767, -257, -256, -255, -1, 0, 1, 255, 256, 257, 32766, 32767}

StringValue(length, p) ==
    [k \in 1..length |->
        CASE p = 0 -> 0
          [] p = 1 -> 255
          [] p = 2 -> 64 + k
          [] OTHER -> (k * 37) % 256]

RECURSIVE InstanceOf(_, _)
\* a value of the field f
FieldValue(f, p) ==
    CASE f.kind = "Byte" -> ByteValues[p + 1]
      [] f.kind = "Word" -> WordValues[p + 1]
      [] f.kind = "SWord" -> SWordValues[p + 1]
      [] f.kind = "Long" -> LongValues[p + 1]
      [] f.kind = "String" -> StringValue(f.length, p)
      [] f.kind = "Subrecord" -> InstanceOf(f.cls, p)

\* the index of the field called nm in the _fields list
FieldIndex(cls, nm) == CHOOSE k \in 1..Len(_fields(cls)) : _fields(cls)[k].name = nm

\* cls(**kwargs): a record whose k-th field has the value of pick p + k
InstanceOf(cls, p) ==
    [nm \in FieldNames(cls) |->
        FieldValue(_fields(cls)[FieldIndex(cls, nm)], (p + FieldIndex(cls, nm)) % 4)]

\* records with a string shorter or longer than its field, or an integer
\* outside its field's range
OddInstances ==
    { [name |-> "StatusRecord",
       arg |-> [InstanceOf("StatusRecord", 2) EXCEPT !.device_type = Ascii_DL210TH]],
      [name |-> "StatusRecord",
       arg |-> [InstanceOf("StatusRecord", 2) EXCEPT !.firmware_version = << >>]],
      [name |-> "StatusRecord",
       arg |-> [InstanceOf("StatusRecord", 2) EXCEPT !.unset = << 1, 2, 3 >>]],
      [name |-> "StatusRecord",
       arg |-> [InstanceOf("StatusRecord", 2) EXCEPT
                    !.serial_number = StringValue(15, 2), !.unset = << 1, 2, 3 >>]],
      [name |-> "OwnerStartTime",
       arg |-> [InstanceOf("OwnerStartTime", 2) EXCEPT !.owner = StringValue(33, 2)]],
      [name |-> "OwnerStartTime",
       arg |-> [InstanceOf("OwnerStartTime", 2) EXCEPT !.owner = StringValue(5, 2)]],
      [name |-> "OwnerStartTime",
       arg |-> [InstanceOf("OwnerStartTime", 2) EXCEPT !.owner = << 256 >>]],
      [name |-> "DateTimeRecord",
       arg |-> [InstanceOf("DateTimeRecord", 2) EXCEPT !.year = 65536]],
      [name |-> "DateTimeRecord",
       arg |-> [InstanceOf("DateTimeRecord", 2) EXCEPT !.month = -1]],
      [name |-> "Measurement",
       arg |-> [temperature100 |-> -32769, humidity100 |-> 32768]] }

RecordInstances ==
    {[name |-> cls, arg |-> InstanceOf(cls, p)] : cls \in Classes, p \in Picks}
        \cup {[name |-> "Measurement", arg |-> [temperature100 |-> t, humidity100 |-> h]] :
                t \in Int16Samples, h \in Int16Samples}
        \cup OddInstances

\* the buffers parsed: the serialized record, each part of it from its
\* start, and it with bytes after it
Buffers(s) ==
    {SubSeq(s, 1, k) : k \in 0..Len(s)} \cup {s \o << 0 >>, s \o << 1, 2 >>}

RecordInit ==
    /\ pc = "record"
    /\ cmd \in RecordInstances
    /\ out = << >>
    /\ wire = [cmd |-> 0, reads |-> 0]
    /\ received = << >>
    /\ channel = NoChannel
    /\ num_retries = 0
    /\ attempts = 0
    /\ onlyChanged = TRUE
    /\ state_before = NoConfig
    /\ state_after = NoConfig
    /\ dump_n = 0
    /\ dump = << >>
    /\ result = << >>
    /\ idx = 0
    /\ fetched = << >>
    /\ ret = NoRet

\* record.serialize()
Serialize ==
    /\ pc = "record"
    /\ ret' = Record_serialize(cmd.name, cmd.arg)
    /\ out' = IF ret'.ok THEN ret'.value ELSE << >>
    /\ pc' = IF ret'.ok THEN "serialized" ELSE "raised"
    /\ UNCHANGED << cmd, wire, received, channel, dumpVars >>

\* cls.parse(data)
Parse ==
    /\ pc = "serialized"
    /\ received' \in Buffers(out)
    /\ UNCHANGED channel
    /\ ret' = Record_parse(cmd.name, received')
    /\ pc' = "parsed"
    /\ UNCHANGED << cmd, out, wire, dumpVars >>

RecordNext == Serialize \/ Parse

RecordSpec == RecordInit /\ [][RecordNext]_vars

(***************************************************************************)
(* The channel as a FIFO of the frames the device emits.  After the dump   *)
(* command the device has a stream to emit, frame by frame in its own      *)
(* time; a read takes the oldest frame emitted and not yet read, or times  *)
(* out with no bytes when there is none.  dump_data runs, and when it has  *)
(* returned one more method is called, whose command the device answers    *)
(* after what it still had to emit.                                        *)
(***************************************************************************)
StreamBlock(k) == PadTo64(Resp(BlockBytes(k, per_block, 0)))
EndMarker == PadTo64(<< 63, 3, 0, 0, 5 >>)
OtherThree == PadTo64(<< 63, 3, 1, 2, 3 >>)

\* the streams of a device: the blocks in order and the end marker, and one
\* with a frame of three other bytes after its first block
DeviceStreams ==
    {[j \in 1..k |-> StreamBlock(j)] \o << EndMarker >> : k \in 0..(MaxBlocks - 1)}
        \cup {<< StreamBlock(1), OtherThree, StreamBlock(2), EndMarker >>}

\* the methods called after dump_data, as _try_read_measurements calls them
FollowUps == {GetDataBlock(k) : k \in 1..2} \cup {GetBasicConfig}

\* the frame the device answers the method c with
DeviceAnswer(c) ==
    PadTo64(Resp(CHOOSE p \in ValidPayloads(CommandCode(c.name), Payload(c).value) :
                    c.name = "get_data_block" => Len(p) = 2 + 4 * per_block))

ChannelInit ==
    /\ pc = "ch_dump"
    /\ cmd = [name |-> "dump_data", arg |-> 0]
    /\ out = << >>
    /\ wire = [cmd |-> 0, reads |-> 0]
    /\ received = << >>
    /\ channel = NoChannel
    /\ num_retries = 0
    /\ attempts = 0
    /\ onlyChanged = TRUE
    /\ state_before = NoConfig
    /\ state_after = NoConfig
    /\ dump_n = 0
    /\ dump = << >>
    /\ result = << >>
    /\ idx = 0
    /\ fetched = << >>
    /\ ret = NoRet

\* the device emits the next of its frames
Device_emit ==
    /\ channel.device # << >>
    /\ channel' = [fifo |-> Append(channel.fifo, Head(channel.device)),
                   device |-> Tail(channel.device)]
    /\ UNCHANGED << pc, cmd, out, wire, received, dumpVars, ret >>

\* self._dev.read(64, _TIMEOUT) on the FIFO
Read_fifo ==
    /\ wire' = [wire EXCEPT !.reads = @ + 1]
    /\ received' = IF channel.fifo = << >> THEN << >> ELSE Head(channel.fifo)
    /\ channel' = [channel EXCEPT !.fifo = IF @ = << >> THEN @ ELSE Tail(@)]

\* dump_data up to its loop; the device has its stream to emit
Ch_dump_send ==
    /\ pc = "ch_dump"
    /\ Write(1, << >>)
    /\ \E st \in DeviceStreams : channel' = [fifo |-> << >>, device |-> st]
    /\ dump_n' = 1
    /\ dump' = << >>
    /\ pc' = "ch_dump_read"
    /\ UNCHANGED << cmd, received, num_retries, attempts, onlyChanged, state_before,
                    state_after, result, idx, fetched, ret >>

\* one pass of the loop of dump_data
Ch_dump_read ==
    /\ pc = "ch_dump_read"
    /\ Read_fifo
    /\ Dd_got(dump_step(received'))
    /\ UNCHANGED << cmd, out, num_retries, attempts, onlyChanged, state_before,
                    state_after, result, idx, fetched >>

\* the method called next, up to run_command's read
Ch_cmd_send ==
    /\ pc = "returned" /\ cmd.name = "dump_data"
    /\ \E c \in FollowUps :
            /\ cmd' = c
            /\ Write(CommandCode(c.name), Payload(c).value)
            /\ channel' = [channel EXCEPT !.device = Append(@, DeviceAnswer(c))]
    /\ pc' = "ch_cmd_recv"
    /\ ret' = NoRet
    /\ UNCHANGED << received, dumpVars >>

\* read_response within run_command, then the method's checks
Ch_cmd_recv ==
    /\ pc = "ch_cmd_recv"
    /\ Read_fifo
    /\ Cmd_return(Answer(cmd, received'))
    /\ UNCHANGED << cmd, out, dumpVars >>

ChannelNext == Device_emit \/ Ch_dump_send \/ Ch_dump_read \/ Ch_cmd_send \/ Ch_cmd_recv

ChannelSpec == ChannelInit /\ [][ChannelNext]_vars

(***************************************************************************)
(* One frame on its own: any frame of up to 64 bytes is read by the loop   *)
(* of dump_data, or by run_command for get_data_block, and a block is      *)
(* made of it or not.                                                      *)
(***************************************************************************)
\* frames of every length and every declared length; the bytes after the
\* first two are numbered, so that the payload starts with 3, 4
AnyFrames ==
    {Numbered(len, b0, b1) :
        len \in 0..ReportLen, b0 \in {62, 63}, b1 \in 0..ReportLen \cup {255}}

\* the block numbers asked for: the one the frames echo, and another
EchoedNumber == 3 * 256 + 4
FrameCalls == {GetDataBlock(EchoedNumber), GetDataBlock(1)}

FrameInit ==
    /\ pc = "frame"
    /\ cmd = NoCmd
    /\ out = << >>
    /\ wire = [cmd |-> 0, reads |-> 0]
    /\ received = << >>
    /\ channel = NoChannel
    /\ num_retries = 0
    /\ attempts = 0
    /\ onlyChanged = TRUE
    /\ state_before = NoConfig
    /\ state_after = NoConfig
    /\ dump_n = 0
    /\ dump = << >>
    /\ result = << >>
    /\ idx = 0
    /\ fetched = << >>
    /\ ret = NoRet

\* dump_data: the command, one read and the loop's pass over the frame
Frame_dump ==
    /\ pc = "frame"
    /\ cmd' = [name |-> "dump_data", arg |-> 0]
    /\ out' = send_command(1, << >>).value
    /\ \E r \in AnyFrames :
            /\ received' = r
            /\ \/ /\ ~dump_step(r).ok
                  /\ ret' = dump_step(r) /\ pc' = "raised" /\ dump' = << >>
               \/ /\ dump_step(r).ok /\ dump_step(r).value.kind = "block"
                  /\ dump' = << dump_step(r).value.block >>
                  /\ ret' = ret /\ pc' = "dd_read"
               \/ /\ dump_step(r).ok /\ dump_step(r).value.kind = "continue"
                  /\ dump' = << >> /\ ret' = ret /\ pc' = "dd_read"
               \/ /\ dump_step(r).ok /\ dump_step(r).value.kind = "break"
                  /\ dump' = << >> /\ ret' = Ok(<< >>) /\ pc' = "returned"
    /\ wire' = [cmd |-> 1, reads |-> 1]
    /\ UNCHANGED << channel, num_retries, attempts, onlyChanged, state_before,
                    state_after, dump_n, result, idx, fetched >>

\* get_data_block(n): the command, the read and the method's checks
Frame_fetch ==
    /\ pc = "frame"
    /\ \E c \in FrameCalls :
            /\ cmd' = c
            /\ out' = send_command(2, Payload(c).value).value
            /\ \E r \in AnyFrames : received' = r /\ Cmd_return(Answer(c, r))
    /\ wire' = [cmd |-> 2, reads |-> 1]
    /\ UNCHANGED << channel, dumpVars >>

FrameNext == Frame_dump \/ Frame_fetch

FrameSpec == FrameInit /\ [][FrameNext]_vars

(***************************************************************************)
(* Properties.                                                             *)
(***************************************************************************)
\* the least m with b * m >= a
Ceil(a, b) == CHOOSE m \in 0..a : b * m >= a /\ (m = 0 \/ b * (m - 1) < a)

\* read_measurements has raised the data-changed error, every attempt of the
\* call having failed with it
Exhausted ==
    pc = "raised" /\ attempts > 0 /\ onlyChanged /\ ret = Raise(ErrChanged)

C2_OnlyChangedRetried ==
    [][(pc = "except" /\ ret # Raise(ErrChanged)) => (pc' = "raised" /\ out' = out)]_vars

\* the attempt has read both configurations and has ended
Compared == state_after # NoConfig /\ pc \in {"returned", "except", "raised"}

SameState ==
    /\ state_before.data_count = state_after.data_count
    /\ state_before.time = state_after.time

\* C3: _try_read_measurements returns only if the configurations read before
\* and after the dump have equal data_count and equal time; if either
\* differs the attempt fails with the data-changed error and returns nothing.
C3_ChangedOrSame ==
    Compared => (SameState \/ (pc # "returned" /\ ret = Raise(ErrChanged)))

\* read_measurements has got a result from _try_read_measurements
Returned == pc = "returned" /\ attempts > 0

\* C4: whenever _try_read_measurements returns, the result has
\* ceil(data_count / 15) entries, none of them empty, and the entry at index
\* i (from 0) is the block with number i + 1.
C4_OrderedGapFree ==
    Returned =>
        /\ Len(result) = Ceil(state_after.data_count, 15)
        /\ \A j \in 1..Len(result) : result[j] # None /\ result[j].num = j

C4_Witness ==
    /\ Returned
    /\ Len(result) = MaxBlocks
    /\ Len(dump) = 2 /\ dump[1].num = 3 /\ dump[2].num = 1
    /\ fetched = << 2 >>

\* the first loop of _try_read_measurements is over
Folded == pc \in {"gdb_send", "gdb_recv", "gbc2_send", "gbc2_recv", "returned"}

\* the number of blocks data_count measurements fill, and of measurements
\* in block k of them
Expected == Ceil(state_before.data_count, 15)
ExpectedIn(k) ==
    IF k < Expected THEN 15 ELSE state_before.data_count - 15 * (Expected - 1)

\* block k was streamed, once, with the measurements it holds
Streamed(k) ==
    /\ \E j \in 1..Len(dump) :
            dump[j].num = k /\ Len(dump[j].measurements) = ExpectedIn(k)
    /\ Cardinality({j \in 1..Len(dump) : dump[j].num = k}) = 1

\* C5: when each of the blocks 1..expectedBlocks arrives in the dump stream
\* exactly once (data_count = 32: blocks 1, 2, 3 of 15, 15 and 2
\* measurements), no get_data_block command is issued and the result is the
\* streamed blocks in the order of their numbers.
C5_NoFetchWhenComplete ==
    (Folded /\ attempts > 0 /\ Expected >= 1 /\ Len(dump) = Expected
        /\ \A k \in 1..Expected : Streamed(k))
    => /\ fetched = << >>
       /\ pc = "returned" =>
            \A k \in 1..Expected : \E j \in 1..Len(dump) : result[k] = dump[j]

\* C6: when block 2 of 3 expected blocks is missing from the dump stream and
\* blocks 1 and 3 are in it, exactly one get_data_block command is issued,
\* for block 2, and the block it returns is result[1].
C6_OneFetchForGap ==
    (Returned /\ Expected = 3 /\ Len(dump) = 2 /\ Streamed(1) /\ Streamed(3))
    => /\ fetched = << 2 >>
       /\ result[1] \in {dump[1], dump[2]}
       /\ result[3] \in {dump[1], dump[2]}
       /\ result[2].num = 2
       /\ \A m \in 1..Len(result[2].measurements) :
            result[2].measurements[m].humidity100 = 1

\* C7: when two streamed frames carry the same block number within
\* [1, expectedBlocks], the attempt raises the duplicate-block error without
\* having assigned a result, and read_measurements raises it to its caller
\* rather than going on to a result.
C7_DuplicateIsFatal ==
    [][/\ (pc = "dump_read" /\ ret' = Raise(ErrDuplicate)) =>
            (pc' = "except" /\ result' = << >>)
       /\ (pc = "except" /\ ret = Raise(ErrDuplicate)) => pc' = "raised"]_vars

\* run_command has returned or raised
Ran == pc = "run_command" /\ wire.reads = 1

\* C8: for every response of 0..64 bytes run_command raises "response too
\* short" if it has fewer than 2 bytes, else "invalid first byte" if byte 0
\* is not 0x3f, else "response length too large" if byte 1 + 2 exceeds its
\* length, and else returns response[2 : 2 + byte 1]; it returns in no other
\* case.
C8_Envelope ==
    Ran =>
        IF Len(received) < 2 THEN ret = Raise(ErrTooShort)
        ELSE IF received[1] # 63 THEN ret = Raise(ErrFirstByte)
        ELSE IF received[2] + 2 > Len(received) THEN ret = Raise(ErrLengthTooLarge)
        ELSE ret = Ok(SubSeq(received, 3, 2 + received[2]))

C8_Witness ==
    /\ Ran
    /\ Len(received) = ReportLen
    /\ ret.ok /\ Len(ret.value) = ReportLen - 2 /\ ret.value[1] = 3

\* the program is at a read of the device
Receiving ==
    pc \in {"init_recv", "cmd_recv", "gbc1_recv", "dump_read", "dd_read", "gdb_recv",
            "gbc2_recv"}

\* C9: every frame written is 0x3f, len(payload) + 1, the command's code and
\* the payload, and has at most 64 bytes, for every command, record_basic and
\* record_full with their serialized records included.
C9_Frame ==
    /\ out # << >> =>
        /\ 3 <= Len(out) /\ Len(out) <= 64
        /\ out[1] = 63
        /\ out[2] = (Len(out) - 3) + 1
        /\ out[3] = wire.cmd
    /\ Receiving =>
        /\ out[3] = CommandCode(cmd.name)
        /\ SubSeq(out, 4, Len(out)) = Payload(cmd).value

C9_Witness ==
    pc = "cmd_recv" /\ cmd.name = "record_full" /\ Len(out) = 62 /\ out[2] = 60

\* C10: every command but dump_data is one write and then one read,
\* dump_data is one write and then one read or more, and nothing is written
\* between a command's write and the end of its reads.
C10_HalfDuplex ==
    [][/\ (wire.cmd # 0 /\ wire.reads = 0) => wire' = [wire EXCEPT !.reads = 1]
       /\ (wire.cmd \notin {0, 1} /\ wire.reads >= 1) =>
            (wire' = wire \/ wire'.reads = 0)
       /\ pc \in {"dump_read", "dd_read"} => wire' = [wire EXCEPT !.reads = @ + 1]
       /\ wire'.reads = 0 => ~Receiving]_vars

C10_Witness ==
    /\ Returned
    /\ Len(dump) = 2
    /\ fetched # << >>
    /\ wire = [cmd |-> 4, reads |-> 1]

(***************************************************************************)
(* C11: a read that times out yields a zero-length response.  Inside       *)
(* dump_data it ends the loop and dump_data returns the blocks collected   *)
(* so far without an error; inside run_command it makes the command fail   *)
(* with the response-too-short error.                                      *)
(***************************************************************************)
\* this step is a read that timed out
TimedOut == Receiving /\ wire'.reads = wire.reads + 1 /\ received' = << >>

InRunCommand == pc \in {"init_recv", "cmd_recv", "gbc1_recv", "gdb_recv", "gbc2_recv"}

C11_TimedOutRead ==
    [][TimedOut =>
        /\ pc = "dd_read" => pc' = "returned" /\ ret' = Ok(dump)
        /\ pc = "dump_read" =>
              \/ pc' \in {"gdb_send", "gbc2_send"} /\ ret' = NoRet
              \/ pc' = "except" /\ ret' = Raise(ErrDuplicate)
        /\ InRunCommand =>
              /\ ret' = Raise(ErrTooShort)
              /\ pc' \in {"failed", "raised", "except"}]_vars

\* dump_data has returned two blocks after a read that timed out
C11_Witness ==
    /\ pc = "returned" /\ cmd.name = "dump_data" /\ received = << >>
    /\ ret.ok /\ Len(ret.value) = 2

(***************************************************************************)
(* C12: the loop of dump_data is a state machine.  While it awaits a       *)
(* frame, a valid data-block frame or an empty frame (declared length 2)   *)
(* leaves it awaiting the next frame; a frame whose payload is {0, 0, 5}   *)
(* or a zero-length read ends it; and once it has ended, no further frame  *)
(* of the stream is read and no further block is collected.                *)
(***************************************************************************)
AwaitingFrame == pc \in {"dump_read", "dd_read"}

\* the frames by their bytes
IsDataBlockFrame(r) ==
    /\ Len(r) >= 2 /\ r[1] = 63
    /\ r[2] > 3 /\ r[2] <= Len(r) - 2 /\ (r[2] - 2) % 4 = 0
IsEmptyFrame(r) == Len(r) >= 4 /\ r[1] = 63 /\ r[2] = 2
IsTerminationMarker(r) ==
    Len(r) >= 5 /\ r[1] = 63 /\ r[2] = 3 /\ SubSeq(r, 3, 5) = << 0, 0, 5 >>

\* the stream was dumped and the loop has ended
DumpDone == wire.cmd = 1 /\ ~AwaitingFrame

C12_DumpStateMachine ==
    [][/\ AwaitingFrame =>
            /\ wire' = [wire EXCEPT !.reads = @ + 1]
            /\ IsDataBlockFrame(received') \/ IsEmptyFrame(received') =>
                    /\ pc' = pc
                    /\ Len(dump') = Len(dump) + (IF IsDataBlockFrame(received') THEN 1 ELSE 0)
            /\ IsTerminationMarker(received') \/ received' = << >> => ~AwaitingFrame'
       /\ DumpDone =>
            /\ wire' = wire \/ wire'.reads = 0
            /\ received' = received
            /\ wire' = wire => Len(dump') <= Len(dump) /\ ~AwaitingFrame']_vars

\* a dump of four reads has ended at the marker with two blocks: one of its
\* frames was an empty one
C12_Witness ==
    /\ pc = "returned" /\ cmd.name = "dump_data"
    /\ IsTerminationMarker(received)
    /\ wire.reads = 4
    /\ ret.ok /\ Len(ret.value) = 2

(***************************************************************************)
(* C13: for every record class and every record whose field values are    *)
(* representable (unsigned fields within their width, signed words in      *)
(* -32768..32767, strings of exactly the declared width), parsing the      *)
(* serialized record yields a record equal to it field by field; so does   *)
(* every signed 16-bit value of a Measurement.  (Longs are taken below     *)
(* 2^31.)                                                                  *)
(***************************************************************************)
RECURSIVE Representable(_, _)
FieldRepresentable(f, v) ==
    CASE f.kind = "Byte" -> v \in 0..255
      [] f.kind = "Word" -> v \in 0..65535
      [] f.kind = "SWord" -> v \in -32768..32767
      [] f.kind = "Long" -> v >= 0 /\ v <= 2147483647
      [] f.kind = "String" -> Len(v) = f.length /\ IsBytes(v)
      [] f.kind = "Subrecord" -> Representable(f.cls, v)

Representable(cls, record) ==
    \A k \in 1..Len(_fields(cls)) :
        FieldRepresentable(_fields(cls)[k], record[_fields(cls)[k].name])

\* the record was serialized and the bytes parsed
RoundTrip == pc = "parsed" /\ received = out

C13_RoundTrip ==
    /\ pc \in {"serialized", "raised"} /\ Representable(cmd.name, cmd.arg) => ret.ok
    /\ RoundTrip /\ Representable(cmd.name, cmd.arg) =>
          /\ ret.ok
          /\ \A nm \in FieldNames(cmd.name) : ret.value[nm] = cmd.arg[nm]
          /\ ret.value = cmd.arg

\* a LoggerConfig with negative alarms, the largest sample rate and times in
\* its sub-records has been through serialize and parse
C13_Witness ==
    /\ RoundTrip /\ cmd.name = "LoggerConfig" /\ Representable(cmd.name, cmd.arg)
    /\ cmd.arg.temp_high_alarm_100 = -1
    /\ cmd.arg.hum_high_alarm_100 = -32768
    /\ cmd.arg.sample_rate = 2147483647
    /\ cmd.arg.start_time.year = 258
    /\ ret.ok /\ ret.value.hum_high_alarm_100 = -32768

(***************************************************************************)
(* C14: for every record class, the parse of a buffer shorter than the     *)
(* class's serialized length fails with "record too short", the parse of   *)
(* a longer buffer fails with "record too long", and the parse of a        *)
(* buffer of exactly that length does not fail, sub-records included.      *)
(***************************************************************************)
C14_ExactLength ==
    pc = "parsed" =>
        /\ Len(received) < serialized_length(cmd.name) => ret = Raise(ErrRecordTooShort)
        /\ Len(received) > serialized_length(cmd.name) => ret = Raise(ErrRecordTooLong)
        /\ Len(received) = serialized_length(cmd.name) => ret.ok

\* a buffer that ends one byte short, within the last sub-record of an
\* OwnerStartTime, has been refused
C14_Witness ==
    /\ pc = "parsed" /\ cmd.name = "OwnerStartTime"
    /\ Len(received) = serialized_length("OwnerStartTime") - 1
    /\ ret = Raise(ErrRecordTooShort)

(***************************************************************************)
(* C15: serializing a string field always yields exactly the declared      *)
(* width: a shorter value is padded with zero bytes on the right and a     *)
(* longer one is refused with an error, neither cut nor emitted as it is;  *)
(* so the output of a record's serialize always has the class's            *)
(* serialized length.                                                      *)
(***************************************************************************)
StringFields(cls) ==
    {_fields(cls)[k] : k \in {j \in 1..Len(_fields(cls)) : _fields(cls)[j].kind = "String"}}

Serialized == pc \in {"serialized", "raised"}

C15_DeclaredWidth ==
    Serialized =>
        /\ \A f \in StringFields(cmd.name) :
              /\ Len(cmd.arg[f.name]) <= f.length /\ IsBytes(cmd.arg[f.name]) =>
                    Field_serialize(f, cmd.arg[f.name])
                        = Ok(cmd.arg[f.name] \o Zeros(f.length - Len(cmd.arg[f.name])))
              /\ Len(cmd.arg[f.name]) > f.length => ~Field_serialize(f, cmd.arg[f.name]).ok
              /\ Len(cmd.arg[f.name]) > f.length => ~ret.ok
        /\ ret.ok => Len(ret.value) = serialized_length(cmd.name)

(***************************************************************************)
(* C16: constructing the handle issues the status command (code 48)        *)
(* exactly once.  It succeeds only if the device type of the status        *)
(* record, stripped, is "DL-210TH", and otherwise fails with the           *)
(* unsupported-device error; and no command other than status is written   *)
(* before a status response that identifies a DL-210TH has been received.  *)
(***************************************************************************)
Constructing == pc \in {"new", "init_recv"}
NoHandle == pc \in {"new", "init_recv", "failed"}

\* what status() makes of the frame r
StatusOf(r) == Answer([name |-> "status", arg |-> 0], r)

\* the frame r is a status response that identifies a DL-210TH
IdentifiesDL210TH(r) ==
    /\ StatusOf(r).ok
    /\ RStrip(LStrip(StatusOf(r).value.device_type)) = Ascii_DL210TH

C16_Constructor ==
    /\ [](pc = "new" => out = << >> /\ wire.cmd = 0)
    /\ [](NoHandle /\ pc # "new" => wire.cmd = 48 /\ out = send_command(48, << >>).value)
    /\ [][/\ pc = "new" => pc' = "init_recv"
          /\ pc = "init_recv" =>
                /\ out' = out /\ wire'.cmd = 48
                /\ pc' \in {"idle", "failed"}
                /\ pc' = "idle" <=> IdentifiesDL210TH(received')
                /\ StatusOf(received').ok /\ ~IdentifiesDL210TH(received') =>
                        ret' = Raise(ErrUnsupported)
                /\ ~StatusOf(received').ok => ret' = StatusOf(received')
          /\ pc = "failed" => pc' = "failed"
          /\ NoHandle /\ ~NoHandle' => pc = "init_recv" /\ IdentifiesDL210TH(received')]_vars

\* the handle has just been made for a device whose type has spaces on both
\* sides of its name
C16_Witness ==
    /\ pc = "idle" /\ wire = [cmd |-> 48, reads |-> 1]
    /\ IdentifiesDL210TH(received)
    /\ StatusOf(received).value.device_type[1] = 32

(***************************************************************************)
(* C17: within one attempt the steps run in a fixed order.                 *)
(***************************************************************************)
InAttempt ==
    pc \in {"gbc1_send", "gbc1_recv", "dump_send", "dump_read", "gdb_send", "gdb_recv",
            "gbc2_send", "gbc2_recv"}

\* the place of a position within _try_read_measurements
Rank(p) ==
    CASE p \in {"gbc1_send", "gbc1_recv"} -> 1
      [] p \in {"dump_send", "dump_read"} -> 2
      [] p \in {"gdb_send", "gdb_recv"} -> 3
      [] p \in {"gbc2_send", "gbc2_recv"} -> 4

\* this step writes a fetch-block command
FetchSent == fetched' # fetched /\ fetched' # << >>
\* this step reads the second configuration
AfterRead == state_after' # state_after /\ state_after' # NoConfig
\* this step raises the error e
Raises(e) == ret' = Raise(e) /\ ret # Raise(e)

\* C17 as the code has it: the order is read basic config (state_before),
\* dump stream, fold, gap-fill fetches, read basic config (state_after),
\* consistency check.  Every fetch-block command is sent before the second
\* configuration is read, the data-changed error is raised only as the last
\* step, and the duplicate-block and malformed-block errors only before the
\* second configuration is read.
C17_CheckComesLast ==
    [][/\ InAttempt /\ InAttempt' => Rank(pc') >= Rank(pc)
       /\ FetchSent =>
            /\ wire'.cmd = 2 /\ state_before # NoConfig /\ state_after = NoConfig
            /\ Len(result) = expected_blocks(state_before)
       /\ AfterRead =>
            /\ pc = "gbc2_recv"
            /\ \A j \in 1..Len(result) : result[j] # None
       /\ Raises(ErrChanged) => pc = "gbc2_recv" /\ AfterRead
       /\ attempts > 0 /\ (Raises(ErrDuplicate) \/ Raises(ErrDivisible)) =>
            pc \in {"dump_read", "gdb_recv"} /\ state_after = NoConfig]_vars

\* C17 as stated: the second configuration is read and compared before any
\* fetch-block command is sent, so an attempt whose consistency check fails
\* has sent no fetch-block command, and an attempt cannot fail with the
\* duplicate-block or malformed-block error once the check has failed.
C17_CheckBeforeFetch ==
    [][/\ FetchSent => state_after # NoConfig /\ consistent(state_before, state_after).ok
       /\ Raises(ErrChanged) => fetched = << >>]_vars

\* the consistency check of an attempt has failed after the attempt had
\* fetched a block
C17_Witness ==
    /\ pc = "except" /\ ret = Raise(ErrChanged)
    /\ fetched # << >>
    /\ state_after # NoConfig

(***************************************************************************)
(* C18: in dump_data a data block whose number is not the expected next    *)
(* number is never fatal: the block is appended to the list returned, the  *)
(* expected next number becomes the block's number + 1, and the list       *)
(* returned is the decoded data-block frames in the order they arrived,    *)
(* whatever their numbers.                                                 *)
(***************************************************************************)
\* the block a data-block frame r holds, from its bytes
BlockOf(r) ==
    [num |-> r[3] * 256 + r[4],
     measurements |->
        [m \in 1..((r[2] - 2) \div 4) |->
            [temperature100 |->
                IF r[4 * m + 1] + 256 * r[4 * m + 2] >= 32768
                THEN r[4 * m + 1] + 256 * r[4 * m + 2] - 65536
                ELSE r[4 * m + 1] + 256 * r[4 * m + 2],
             humidity100 |->
                IF r[4 * m + 3] + 256 * r[4 * m + 4] >= 32768
                THEN r[4 * m + 3] + 256 * r[4 * m + 4] - 65536
                ELSE r[4 * m + 3] + 256 * r[4 * m + 4]]]]

C18_OutOfSequence ==
    [][/\ AwaitingFrame /\ IsDataBlockFrame(received') =>
            /\ pc' = pc
            /\ dump' = Append(dump, BlockOf(received'))
            /\ dump_n' = BlockOf(received').num + 1
       /\ AwaitingFrame /\ ~IsDataBlockFrame(received') => dump' \in {dump, << >>}
       /\ pc = "dd_read" /\ pc' = "returned" => ret' = Ok(dump)]_vars

\* dump_data has returned blocks 3 and 1 in that order, block 3 having come
\* where block 1 was expected and block 1 where block 4 was
C18_Witness ==
    /\ pc = "returned" /\ cmd.name = "dump_data" /\ ret.ok
    /\ Len(ret.value) = 2
    /\ ret.value[1].num = 3 /\ ret.value[2].num = 1
    /\ dump_n = 2

(***************************************************************************)
(* C19: in dump_data a frame whose payload is 3 bytes but not {0, 0, 5}    *)
(* stops the loop without an error, and dump_data returns the blocks       *)
(* collected before it; a frame whose declared length is below 2 fails     *)
(* with the "too short block" error.                                       *)
(***************************************************************************)
\* a frame of declared length 3 that is not the end marker
IsOtherThreeBytes(r) ==
    Len(r) >= 5 /\ r[1] = 63 /\ r[2] = 3 /\ SubSeq(r, 3, 5) # << 0, 0, 5 >>
IsShortBlock(r) == Len(r) >= 2 /\ r[1] = 63 /\ r[2] < 2

C19_ThreeBytesAndShort ==
    [][/\ pc = "dd_read" /\ IsOtherThreeBytes(received') =>
            pc' = "returned" /\ ret' = Ok(dump)
       /\ pc = "dump_read" /\ IsOtherThreeBytes(received') =>
            \/ pc' \in {"gdb_send", "gbc2_send"} /\ ret' = NoRet /\ dump' = dump
            \/ pc' = "except" /\ ret' = Raise(ErrDuplicate)
       /\ pc = "dd_read" /\ IsShortBlock(received') =>
            pc' = "raised" /\ ret' = Raise(ErrShortBlock)
       /\ pc = "dump_read" /\ IsShortBlock(received') =>
            pc' = "except" /\ ret' = Raise(ErrShortBlock)]_vars

\* dump_data has returned the two blocks it had when a frame of three other
\* bytes came
C19_Witness ==
    /\ pc = "returned" /\ cmd.name = "dump_data"
    /\ IsOtherThreeBytes(received)
    /\ ret.ok /\ Len(ret.value) = 2

(***************************************************************************)
(* C20: when the streamed blocks are folded, a block whose number is       *)
(* outside 1..expected_blocks (0, or greater than expected_blocks) is      *)
(* ignored: it changes no slot of the result, raises no error and never    *)
(* counts as a duplicate.                                                  *)
(***************************************************************************)
\* the places in the dump of the blocks numbered k
PlacesOf(k) == {j \in 1..Len(dump) : dump[j].num = k}

\* this step folds the dump, and the fold succeeds
FoldDone == pc = "dump_read" /\ pc' \in {"gdb_send", "gbc2_send"}

C20_OutOfRangeIgnored ==
    [][/\ FoldDone =>
            /\ Len(result') = Expected
            /\ \A k \in 1..Expected :
                    IF PlacesOf(k) = {} THEN result'[k] = None
                    ELSE \E j \in PlacesOf(k) : result'[k] = dump[j]
       /\ pc = "dump_read" /\ Raises(ErrDuplicate) =>
            \E k \in 1..Expected : Cardinality(PlacesOf(k)) > 1
       /\ pc = "dump_read" /\ ~AwaitingFrame'
            /\ (\A k \in 1..Expected : Cardinality(PlacesOf(k)) <= 1)
            /\ (received' = << >> \/ IsTerminationMarker(received')) => FoldDone]_vars

\* three blocks are expected and the dump was block 0, block 1 and block 0
\* again: the fold has filled slot 1 alone and block 2 is about to be fetched
C20_Witness ==
    /\ pc = "gdb_send" /\ fetched = << >> /\ cmd.arg = 2
    /\ Expected = 3 /\ Len(dump) = 3
    /\ Cardinality(PlacesOf(0)) = 2
    /\ result[1] # None /\ result[2] = None /\ result[3] = None

(***************************************************************************)
(* C21: get_data_block(n) returns a block only if the payload of the       *)
(* response starts with the two bytes of n, high byte first, and the       *)
(* number of bytes after them is a multiple of 4; otherwise it fails with  *)
(* an error, and the block it returns always has the number n.             *)
(***************************************************************************)
\* the frame r has the envelope run_command takes, and its payload
EnvelopeOk(r) == Len(r) >= 2 /\ r[1] = 63 /\ r[2] + 2 <= Len(r)
PayloadOf(r) == SubSeq(r, 3, r[2] + 2)

\* the payload p echoes the block number k
Echoes(p, k) == Len(p) >= 2 /\ p[1] = k \div 256 /\ p[2] = k % 256
WellFormedBlock(r, k) ==
    /\ EnvelopeOk(r) /\ Echoes(PayloadOf(r), k)
    /\ (Len(PayloadOf(r)) - 2) % 4 = 0

\* this step is the read of get_data_block's response
BlockRead == pc \in {"cmd_recv", "gdb_recv"} /\ cmd.name = "get_data_block"

C21_EchoedBlock ==
    [][BlockRead =>
        /\ pc = "cmd_recv" =>
              /\ ret'.ok <=> WellFormedBlock(received', cmd.arg)
              /\ ret'.ok =>
                    /\ ret'.value.num = cmd.arg
                    /\ 4 * Len(ret'.value.measurements) = Len(PayloadOf(received')) - 2
        /\ pc = "gdb_recv" =>
              /\ pc' # "except" <=> WellFormedBlock(received', cmd.arg)
              /\ pc' # "except" =>
                    /\ result'[cmd.arg].num = cmd.arg
                    /\ 4 * Len(result'[cmd.arg].measurements)
                            = Len(PayloadOf(received')) - 2
        /\ EnvelopeOk(received') /\ ~Echoes(PayloadOf(received'), cmd.arg) =>
              ret' = Raise(ErrPrefix)
        /\ EnvelopeOk(received') /\ Echoes(PayloadOf(received'), cmd.arg)
              /\ (Len(PayloadOf(received')) - 2) % 4 # 0 => ret' = Raise(ErrDivisible)]_vars

\* get_data_block(300) has returned block 300 with its 15 measurements
C21_Witness ==
    /\ pc = "returned" /\ cmd = [name |-> "get_data_block", arg |-> 300]
    /\ ret.ok /\ ret.value.num = 300 /\ Len(ret.value.measurements) = 15
    /\ WellFormedBlock(received, 300)

(***************************************************************************)
(* C22: whenever _try_read_measurements returns, the measurements of the   *)
(* result's blocks are data_count in all: every block but the last holds   *)
(* 15 of them and the last holds data_count - 15 * (expected_blocks - 1).  *)
(***************************************************************************)
RECURSIVE TotalFrom(_, _)
\* the number of measurements in the blocks res[j], res[j + 1], ...
TotalFrom(res, j) ==
    IF j > Len(res) THEN 0 ELSE Len(res[j].measurements) + TotalFrom(res, j + 1)

C22_TotalIsDataCount ==
    Returned =>
        /\ TotalFrom(result, 1) = state_before.data_count
        /\ \A j \in 1..Len(result) : Len(result[j].measurements) = ExpectedIn(j)

(***************************************************************************)
(* C23: with the channel a FIFO of the frames the device emits, when       *)
(* dump_data returns no frame of the dump stream is left unread in the     *)
(* channel, so the run_command that follows reads the response to the      *)
(* command it has just sent (or nothing, when that has not come), never a  *)
(* frame of the stream.                                                    *)
(***************************************************************************)
\* this step is the return of dump_data
DumpReturns == pc = "ch_dump_read" /\ pc' = "returned"

C23_NoLeftoverFrame ==
    [][/\ DumpReturns => channel'.fifo = << >>
       /\ pc = "ch_cmd_recv" => received' \in {<< >>, DeviceAnswer(cmd)}]_vars

(***************************************************************************)
(* C24: every DataBlock made from one received frame of at most 64 bytes,  *)
(* by the loop of dump_data or by get_data_block, holds at most 15         *)
(* measurements; and every block the loop of dump_data appends holds at    *)
(* least 1 measurement.                                                    *)
(***************************************************************************)
C24_BlockSize ==
    Len(received) <= 64 =>
        /\ \A j \in 1..Len(dump) :
                Len(dump[j].measurements) >= 1 /\ Len(dump[j].measurements) <= 15
        /\ cmd.name = "get_data_block" /\ pc = "returned" =>
                Len(ret.value.measurements) <= 15

\* the loop of dump_data has made a block of 15 measurements of a frame of
\* 64 bytes
C24_Witness ==
    /\ cmd.name = "dump_data" /\ pc = "dd_read"
    /\ Len(received) = 64
    /\ Len(dump) = 1 /\ Len(dump[1].measurements) = 15

=============================================================================
